---- MODULE Spec2Model ----
(***************************************************************************)
(* SalesforceMCPClient (examples/example-client.py): the JSON-RPC client   *)
(* of the Salesforce MCP server.  One client instance owns the counter     *)
(* request_id; every public operation goes through _call_jsonrpc, which    *)
(* draws an id from _next_id, posts the request, and resolves the decoded  *)
(* response; query, tooling_query, describe_object and retrieve_metadata   *)
(* then unwrap the first content item of the tool result.                  *)
(*                                                                         *)
(* JSON values are tagged records, Python dicts are functions on strings,  *)
(* and every Python primitive the client applies to a server reply         *)
(* (`in`, x[k], len, .get, json.loads, str) is an operator that returns    *)
(* either a value or the exception CPython raises for that operand.        *)
(***************************************************************************)
EXTENDS Integers, Sequences, FiniteSets, TLC

VARIABLES
    request_id,  \* self.request_id, the one field the instance changes
    pc,          \* where each context's call stands
    op,          \* the public operation a context called, with its arguments
    tmp,         \* the value `self.request_id += 1` has read and not yet written
    payload,     \* _call_jsonrpc's payload
    response,    \* _call_jsonrpc's decoded response (response.json())
    result,      \* the named operations' local `result`
    outcome,     \* what a context's last finished call returned or raised
    sent,        \* the requests given to requests.post, in order
    raced        \* history: a context entered _next_id while another was in it

vars == <<request_id, pc, op, tmp, payload, response, result, outcome, sent, raced>>

(* ------------------------------ bounds -------------------------------- *)

\* Calls issued on the one client instance in a run.
MaxCalls == 2

\* Execution contexts (threads) sharing the instance in the concurrent runs.
NumContexts == 2

Contexts == 1..NumContexts

\* The single caller of the sequential runs.
MainContext == {1}

(* --------------------------- JSON / Python values --------------------- *)

EmptyDict == <<>>

JNull == [t |-> "null"]

JNum(n) == [t |-> "num", n |-> n]

JStr(s) == [t |-> "str", s |-> s]

JList(items) == [t |-> "list", items |-> items]

JObj(fields) == [t |-> "obj", fields |-> fields]

\* Python's None for the client's own optional arguments and unset locals.
None == [t |-> "None"]

\* The value of an expression: a value, or the exception raised.
Ok(v) == [ok |-> TRUE, val |-> v]

Err(e) == [ok |-> FALSE, exc |-> e]

\* How a call of a public operation ends.
Return(v) == [kind |-> "return", value |-> v]

Raise(e, m) == [kind |-> "raise", exc |-> e, msg |-> m]

NoOutcome == [kind |-> "none"]

\* k is a substring of s  (str.__contains__)
IsSubstring(k, s) ==
    \E i \in 1..(Len(s) - Len(k) + 1) : SubSeq(s, i, i + Len(k) - 1) = k

\* `k in x` for a string k: "yes", "no", or the exception raised.
\* dict: key test; list: element test; str: substring test;
\* None and numbers are not iterable.
Contains(k, x) ==
    CASE x.t = "obj"  -> IF k \in DOMAIN x.fields THEN "yes" ELSE "no"
      [] x.t = "list" -> IF \E i \in 1..Len(x.items) : x.items[i] = JStr(k)
                         THEN "yes" ELSE "no"
      [] x.t = "str"  -> IF IsSubstring(k, x.s) THEN "yes" ELSE "no"
      [] OTHER        -> "TypeError"

\* `x[k]` for a string k.
Subscript(x, k) ==
    CASE x.t = "obj" -> IF k \in DOMAIN x.fields THEN Ok(x.fields[k])
                        ELSE Err("KeyError")
      [] OTHER       -> Err("TypeError")

\* `x[0]`.  The keys of a decoded JSON object are strings, so 0 is never one.
First(x) ==
    CASE x.t = "list" -> IF Len(x.items) > 0 THEN Ok(x.items[1])
                         ELSE Err("IndexError")
      [] x.t = "str"  -> IF Len(x.s) > 0 THEN Ok(JStr(SubSeq(x.s, 1, 1)))
                         ELSE Err("IndexError")
      [] x.t = "obj"  -> Err("KeyError")
      [] OTHER        -> Err("TypeError")

\* `len(x)`.
PyLen(x) ==
    CASE x.t = "list" -> Ok(Len(x.items))
      [] x.t = "str"  -> Ok(Len(x.s))
      [] x.t = "obj"  -> Ok(Cardinality(DOMAIN x.fields))
      [] OTHER        -> Err("TypeError")

\* `x.get(k, default)`: only a dict has the method.
Get(x, k, default) ==
    CASE x.t = "obj" -> IF k \in DOMAIN x.fields THEN Ok(x.fields[k])
                        ELSE Ok(default)
      [] OTHER       -> Err("AttributeError")

\* Decimal text of an integer  (int.__repr__)
RECURSIVE NatStr(_)
NatStr(n) ==
    LET digit == <<"0", "1", "2", "3", "4", "5", "6", "7", "8", "9">>
    IN  IF n < 10 THEN digit[n + 1] ELSE NatStr(n \div 10) \o digit[(n % 10) + 1]

IntStr(n) == IF n < 0 THEN "-" \o NatStr(0 - n) ELSE NatStr(n)

\* The order in which the keys of a decoded object are kept (document order).
KeyOrder == <<"jsonrpc", "id", "code", "message", "error", "result", "content",
              "type", "text", "tools", "a", "b">>

\* repr(x) of a decoded JSON value, as an f-string shows it inside a container.
RECURSIVE PyRepr(_)
RECURSIVE ReprItems(_, _)
RECURSIVE ReprFields(_, _, _)
PyRepr(x) ==
    CASE x.t = "null" -> "None"
      [] x.t = "num"  -> IntStr(x.n)
      [] x.t = "str"  -> "'" \o x.s \o "'"
      [] x.t = "list" -> "[" \o ReprItems(x.items, 1) \o "]"
      [] x.t = "obj"  -> "{" \o ReprFields(x.fields, 1, TRUE) \o "}"

ReprItems(items, i) ==
    IF i > Len(items) THEN ""
    ELSE (IF i > 1 THEN ", " ELSE "") \o PyRepr(items[i]) \o ReprItems(items, i + 1)

ReprFields(fields, i, first) ==
    IF i > Len(KeyOrder) THEN ""
    ELSE IF KeyOrder[i] \in DOMAIN fields
         THEN (IF first THEN "" ELSE ", ")
              \o "'" \o KeyOrder[i] \o "': " \o PyRepr(fields[KeyOrder[i]])
              \o ReprFields(fields, i + 1, FALSE)
         ELSE ReprFields(fields, i + 1, first)

\* str(x): a string is shown as it is, everything else as its repr.
PyStr(x) == IF x.t = "str" THEN x.s ELSE PyRepr(x)

(* ------------------------- texts a server may embed ------------------- *)

TextA == "{\"a\":1}"

TextB == "{\"b\":2}"

TextNull == "null"

TextBad == "not-json"

\* The JSON documents among the texts, with the value each decodes to.
JsonDocuments == {TextA, TextB, TextNull}

Decoded(s) ==
    CASE s = TextA    -> JObj([a |-> JNum(1)])
      [] s = TextB    -> JObj([b |-> JNum(2)])
      [] s = TextNull -> JNull

\* json.loads(x): x must be a str; a str that is no JSON document raises
\* json.JSONDecodeError.
json_loads(x) ==
    IF x.t # "str" THEN Err("TypeError")
    ELSE IF x.s \in JsonDocuments THEN Ok(Decoded(x.s))
    ELSE Err("JSONDecodeError")

(* ------------------------------ the client ---------------------------- *)

\* self.request_id = 0
InitialRequestId == 0

\* Variant: every public operation unwraps.
C10_FacadeOpsAll ==
    {"initialize", "list_tools", "call_tool",
     "query", "tooling_query", "describe_object", "retrieve_metadata"}

\* The public operations that go through call_tool and then unwrap.
FacadeOps == {"query", "tooling_query", "describe_object", "retrieve_metadata"}

\* Variant: the arguments sent as the params, without the name/arguments wrapper.
C8_CallToolRequestFlat(tool_name, arguments) ==
    [method |-> "tools/call", params |-> arguments]

\* call_tool(tool_name, arguments): the method and params given to _call_jsonrpc.
CallToolRequest(tool_name, arguments) ==
    [method |-> "tools/call",
     params |-> [name |-> tool_name, arguments |-> arguments]]

\* The method and params each public operation hands to _call_jsonrpc
\* (params None when the operation passes none).
RequestOf(c) ==
    CASE c.fn = "initialize"        -> [method |-> "initialize", params |-> None]
      [] c.fn = "list_tools"        -> [method |-> "tools/list", params |-> None]
      [] c.fn = "call_tool"         -> CallToolRequest(c.tool_name, c.arguments)
      [] c.fn = "query"             -> CallToolRequest("query", [query |-> c.soql])
      [] c.fn = "tooling_query"     ->
            CallToolRequest("tooling-query", [query |-> c.query])
      [] c.fn = "describe_object"   ->
            CallToolRequest("describe-object",
                            [objectName |-> c.object_name, detailed |-> c.detailed])
      [] c.fn = "retrieve_metadata" ->
            CallToolRequest("metadata-retrieve",
                            [type |-> c.metadata_type, fullNames |-> c.full_names])

\* `params or {}`: None and the empty dict are both falsy.
ParamsOrEmpty(params) ==
    IF params = None \/ params = EmptyDict THEN EmptyDict ELSE params

\* The payload dict of _call_jsonrpc, with the id _next_id returned.
BuildPayload(id, method, params) ==
    [jsonrpc |-> "2.0", id |-> id, method |-> method,
     params |-> ParamsOrEmpty(params)]

\* f"MCP Error: {result['error']}"
MCPErrorMessage(e) == "MCP Error: " \o PyStr(e)

\* Variant: a result field wins over an error field.
C3_ResolveResultWins(resp) ==
    LET has == Contains("error", resp)
    IN  IF has = "TypeError" THEN Raise("TypeError", "")
        ELSE IF Contains("result", resp) = "yes"
        THEN LET r == Subscript(resp, "result")
             IN  IF r.ok THEN Return(r.val) ELSE Raise(r.exc, "")
        ELSE IF has = "yes"
        THEN LET e == Subscript(resp, "error")
             IN  IF e.ok THEN Raise("Exception", MCPErrorMessage(e.val))
                 ELSE Raise(e.exc, "")
        ELSE LET r == Get(resp, "result", JObj(EmptyDict))
             IN  IF r.ok THEN Return(r.val) ELSE Raise(r.exc, "")

\* Variant: result["result"] in place of result.get("result", {}).
C4_ResolveRequiresResult(resp) ==
    LET has == Contains("error", resp)
    IN  IF has = "TypeError" THEN Raise("TypeError", "")
        ELSE IF has = "yes"
        THEN LET e == Subscript(resp, "error")
             IN  IF e.ok THEN Raise("Exception", MCPErrorMessage(e.val))
                 ELSE Raise(e.exc, "")
        ELSE LET r == Subscript(resp, "result")
             IN  IF r.ok THEN Return(r.val) ELSE Raise(r.exc, "")

\* _call_jsonrpc after response.json(): how the decoded response is resolved.
ResolveResponse(resp) ==
    LET has == Contains("error", resp)
    IN  IF has = "TypeError" THEN Raise("TypeError", "")
        ELSE IF has = "yes"
        THEN LET e == Subscript(resp, "error")
             IN  IF e.ok THEN Raise("Exception", MCPErrorMessage(e.val))
                 ELSE Raise(e.exc, "")
        ELSE LET r == Get(resp, "result", JObj(EmptyDict))
             IN  IF r.ok THEN Return(r.val) ELSE Raise(r.exc, "")

\* Variant: the last content item in place of the first.
C5_DecodeLastText(content) ==
    LET item == IF content.t = "list" /\ Len(content.items) > 0
                THEN Ok(content.items[Len(content.items)]) ELSE First(content)
    IN  IF ~item.ok THEN Raise(item.exc, "")
        ELSE LET text == Subscript(item.val, "text")
             IN  IF ~text.ok THEN Raise(text.exc, "")
                 ELSE LET v == json_loads(text.val)
                      IN  IF v.ok THEN Return(v.val) ELSE Raise(v.exc, "")

\* json.loads(result["content"][0]["text"])
DecodeFirstText(content) ==
    LET item == First(content)
    IN  IF ~item.ok THEN Raise(item.exc, "")
        ELSE LET text == Subscript(item.val, "text")
             IN  IF ~text.ok THEN Raise(text.exc, "")
                 ELSE LET v == json_loads(text.val)
                      IN  IF v.ok THEN Return(v.val) ELSE Raise(v.exc, "")

\* Variant: a text that does not decode falls back to the raw result.
C6_UnwrapSwallowsDecodeFailure(res) ==
    LET has == Contains("content", res)
    IN  IF has = "TypeError" THEN Raise("TypeError", "")
        ELSE IF has = "no" THEN Return(res)
        ELSE LET content == Subscript(res, "content")
             IN  IF ~content.ok THEN Raise(content.exc, "")
                 ELSE LET n == PyLen(content.val)
                      IN  IF ~n.ok THEN Raise(n.exc, "")
                          ELSE IF n.val > 0
                          THEN LET o == DecodeFirstText(content.val)
                               IN  IF o.kind = "raise" /\ o.exc = "JSONDecodeError"
                                   THEN Return(res) ELSE o
                          ELSE Return(res)

\* The tail of query, tooling_query, describe_object and retrieve_metadata:
\*   if "content" in result and len(result["content"]) > 0:
\*       return json.loads(result["content"][0]["text"])
\*   return result
UnwrapResult(res) ==
    LET has == Contains("content", res)
    IN  IF has = "TypeError" THEN Raise("TypeError", "")
        ELSE IF has = "no" THEN Return(res)
        ELSE LET content == Subscript(res, "content")
             IN  IF ~content.ok THEN Raise(content.exc, "")
                 ELSE LET n == PyLen(content.val)
                      IN  IF ~n.ok THEN Raise(n.exc, "")
                          ELSE IF n.val > 0 THEN DecodeFirstText(content.val)
                          ELSE Return(res)

(* ----------------------- inputs: calls and replies -------------------- *)

Soql1 == "SELECT Id, Name FROM Account LIMIT 5"

Soql2 == "SELECT Id, Name FROM ApexClass LIMIT 5"

\* The calls a caller makes on the instance.
Calls ==
    { [fn |-> "initialize"], [fn |-> "list_tools"],
      [fn |-> "call_tool", tool_name |-> "query", arguments |-> [query |-> Soql1]],
      [fn |-> "call_tool", tool_name |-> "ping", arguments |-> EmptyDict],
      [fn |-> "query", soql |-> Soql1], [fn |-> "query", soql |-> Soql2],
      [fn |-> "tooling_query", query |-> Soql2],
      [fn |-> "describe_object", object_name |-> "Account", detailed |-> FALSE],
      [fn |-> "describe_object", object_name |-> "Account", detailed |-> TRUE],
      [fn |-> "retrieve_metadata", metadata_type |-> "ApexClass",
       full_names |-> <<"A", "B">>] }

Item(text) == JObj([type |-> JStr("text"), text |-> JStr(text)])

WithContent(c) == JObj([content |-> c])

\* Results that follow the tool-result envelope: a mapping whose content,
\* when present, is a list of items with a text.
EnvelopeResults ==
    { WithContent(JList(<<Item(TextA)>>)),
      WithContent(JList(<<Item(TextB), Item(TextA)>>)),
      WithContent(JList(<<Item(TextA), Item(TextBad)>>)),
      WithContent(JList(<<Item(TextNull)>>)),
      WithContent(JList(<<Item(TextBad)>>)),
      WithContent(JList(<<Item(TextBad), Item(TextA)>>)),
      WithContent(JList(<<>>)),
      JObj(EmptyDict),
      JObj([tools |-> JList(<<>>)]) }

\* Results a server can send that do not follow the envelope.
MalformedResults ==
    { JNull, JNum(1), JList(<<>>), JList(<<JStr("content")>>),
      JStr("ok"), JStr("no content"),
      WithContent(JNull), WithContent(JStr("")), WithContent(JStr("text")),
      WithContent(JObj(EmptyDict)), WithContent(JObj([text |-> JStr(TextA)])),
      WithContent(JList(<<JObj([type |-> JStr("image")])>>)),
      WithContent(JList(<<JNull>>)),
      WithContent(JList(<<JStr(TextA)>>)),
      WithContent(JList(<<JObj([text |-> JNull])>>)) }

Results == EnvelopeResults \cup MalformedResults

\* Error payloads: a string, null, a mapping.
ErrorPayloads ==
    { JStr("boom"), JNull, JObj([code |-> JNum(5), message |-> JStr("boom")]) }

\* Decoded response bodies that are JSON objects.
ObjectBodies ==
    { JObj([result |-> x]) : x \in Results }
    \cup { JObj([error |-> e]) : e \in ErrorPayloads }
    \cup { JObj([error |-> e, result |-> WithContent(JList(<<Item(TextA)>>))]) :
             e \in ErrorPayloads }
    \cup { JObj(EmptyDict), JObj([id |-> JNum(1)]) }

\* Decoded response bodies that are JSON, but no object.
OtherBodies ==
    { JNull, JNum(0), JList(<<>>), JList(<<JStr("error")>>),
      JStr("error"), JStr("Bad Gateway") }

\* What the transport does with one request.
Replies ==
    { [how |-> "Timeout"], [how |-> "ConnectionError"], [how |-> "HTTPError"],
      [how |-> "not_json"] }
    \cup { [how |-> "json", body |-> b] : b \in ObjectBodies \cup OtherBodies }

\* The calls and replies of the concurrent runs.
ConcCalls == { [fn |-> "initialize"], [fn |-> "query", soql |-> Soql1] }

ConcReplies ==
    { [how |-> "Timeout"],
      [how |-> "json", body |-> JObj([error |-> JStr("boom")])],
      [how |-> "json", body |-> JObj([result |-> WithContent(JList(<<Item(TextA)>>))])] }

\* Variant: a failed send raised as the error of a response.
C7_TransportAsProtocolError(reply) ==
    CASE reply.how = "json"     -> Ok(reply.body)
      [] reply.how = "not_json" -> Err("JSONDecodeError")
      [] OTHER                  -> Err("Exception")

\* requests.post, raise_for_status and response.json(): the decoded body, or
\* the exception of the requests library.
Transport(reply) ==
    CASE reply.how = "json"     -> Ok(reply.body)
      [] reply.how = "not_json" -> Err("JSONDecodeError")
      [] OTHER                  -> Err(reply.how)

(* ------------------------------- actions ------------------------------ *)

InNextId == {"next_id_store", "next_id_return"}

BeforeSend == {"next_id_load", "next_id_store", "next_id_return", "send"}

\* Calls begun so far: those on the wire and those still building.
Started == Len(sent) + Cardinality({t \in Contexts : pc[t] \in BeforeSend})

Init ==
    /\ request_id = InitialRequestId
    /\ pc = [t \in Contexts |-> "idle"]
    /\ op = [t \in Contexts |-> None]
    /\ tmp = [t \in Contexts |-> 0]
    /\ payload = [t \in Contexts |-> None]
    /\ response = [t \in Contexts |-> None]
    /\ result = [t \in Contexts |-> None]
    /\ outcome = [t \in Contexts |-> NoOutcome]
    /\ sent = <<>>
    /\ raced = FALSE

\* A caller invokes one public operation on the instance.
Call(t, calls) ==
    /\ pc[t] = "idle"
    /\ Started < MaxCalls
    /\ \E c \in calls : op' = [op EXCEPT ![t] = c]
    /\ pc' = [pc EXCEPT ![t] = "next_id_load"]
    /\ payload' = [payload EXCEPT ![t] = None]
    /\ response' = [response EXCEPT ![t] = None]
    /\ result' = [result EXCEPT ![t] = None]
    /\ UNCHANGED <<request_id, tmp, outcome, sent, raced>>

\* _next_id, `self.request_id += 1`: the read of the attribute.
NextIdLoad(t) ==
    /\ pc[t] = "next_id_load"
    /\ tmp' = [tmp EXCEPT ![t] = request_id]
    /\ pc' = [pc EXCEPT ![t] = "next_id_store"]
    /\ raced' = (raced \/ \E u \in Contexts \ {t} : pc[u] \in InNextId)
    /\ UNCHANGED <<request_id, op, payload, response, result, outcome, sent>>

\* Variant: the counter goes up by two.
C1_IncrementedSkips(v) == v + 2

\* Variant: the counter is written back as read.
C2_IncrementedStuck(v) == v

\* The value `self.request_id += 1` stores back.
Incremented(v) == v + 1

\* _next_id, `self.request_id += 1`: the add and the write of the attribute.
NextIdStore(t) ==
    /\ pc[t] = "next_id_store"
    /\ request_id' = Incremented(tmp[t])
    /\ pc' = [pc EXCEPT ![t] = "next_id_return"]
    /\ UNCHANGED <<op, tmp, payload, response, result, outcome, sent, raced>>

\* _next_id, `return self.request_id` (a second read of the attribute), and
\* the payload dict built around the id.
Build(t) ==
    /\ pc[t] = "next_id_return"
    /\ payload' = [payload EXCEPT ![t] =
                     BuildPayload(request_id, RequestOf(op[t]).method,
                                  RequestOf(op[t]).params)]
    /\ tmp' = [tmp EXCEPT ![t] = 0]
    /\ pc' = [pc EXCEPT ![t] = "send"]
    /\ UNCHANGED <<request_id, op, response, result, outcome, sent, raced>>

\* requests.post(..., json=payload, timeout=60), raise_for_status() and
\* response.json(): one request on the wire, then a decoded body or an
\* exception that leaves _call_jsonrpc.
Send(t, replies) ==
    /\ pc[t] = "send"
    /\ sent' = Append(sent, payload[t])
    /\ \E r \in replies :
         LET d == Transport(r)
         IN  IF d.ok
             THEN /\ response' = [response EXCEPT ![t] = d.val]
                  /\ pc' = [pc EXCEPT ![t] = "resolve"]
                  /\ UNCHANGED outcome
             ELSE /\ outcome' = [outcome EXCEPT ![t] = Raise(d.exc, "")]
                  /\ pc' = [pc EXCEPT ![t] = "idle"]
                  /\ UNCHANGED response
    /\ UNCHANGED <<request_id, op, tmp, payload, result, raced>>

\* The rest of _call_jsonrpc.  initialize, list_tools and call_tool return
\* its value to the caller; the other four operations go on to unwrap it.
Resolve(t) ==
    /\ pc[t] = "resolve"
    /\ LET o == ResolveResponse(response[t])
       IN  IF o.kind = "return" /\ op[t].fn \in FacadeOps
           THEN /\ result' = [result EXCEPT ![t] = o.value]
                /\ pc' = [pc EXCEPT ![t] = "unwrap"]
                /\ UNCHANGED outcome
           ELSE /\ outcome' = [outcome EXCEPT ![t] = o]
                /\ pc' = [pc EXCEPT ![t] = "idle"]
                /\ UNCHANGED result
    /\ UNCHANGED <<request_id, op, tmp, payload, response, sent, raced>>

\* The tail of query, tooling_query, describe_object, retrieve_metadata.
Unwrap(t) ==
    /\ pc[t] = "unwrap"
    /\ outcome' = [outcome EXCEPT ![t] = UnwrapResult(result[t])]
    /\ pc' = [pc EXCEPT ![t] = "idle"]
    /\ UNCHANGED <<request_id, op, tmp, payload, response, result, sent, raced>>

\* One caller: calls one after another.
Next ==
    \E t \in MainContext :
        \/ Call(t, Calls)
        \/ NextIdLoad(t)
        \/ NextIdStore(t)
        \/ Build(t)
        \/ Send(t, Replies)
        \/ Resolve(t)
        \/ Unwrap(t)

Spec == Init /\ [][Next]_vars

\* Several callers whose calls on the one instance overlap.
NextConc ==
    \E t \in Contexts :
        \/ Call(t, ConcCalls)
        \/ NextIdLoad(t)
        \/ NextIdStore(t)
        \/ Build(t)
        \/ Send(t, ConcReplies)
        \/ Resolve(t)
        \/ Unwrap(t)

SpecConc == Init /\ [][NextConc]_vars

(* ------------------------------- claims ------------------------------- *)

\* The last call of context t has ended; its frame is still in place.
Finished(t) == pc[t] = "idle" /\ op[t] # None

\* The failures the requests library raises for a send that did not succeed.
TransportErrors == {"Timeout", "ConnectionError", "HTTPError"}

\* C1: calls made one after another through one instance put the ids
\* 1, 2, ..., N in their requests, in call order, with no repeat and no gap,
\* whatever the outcome of each call; the counter equals the calls begun.
C1_IdsAreOneToN ==
    /\ \A i \in 1..Len(sent) : sent[i].id = i
    /\ \A t \in MainContext :
         /\ pc[t] = "send" => payload[t].id = Len(sent) + 1
         /\ pc[t] \in {"send", "resolve", "unwrap", "idle"} => request_id = Started

\* C1 witness: two calls done, the second one failed, the first one's outcome
\* was a failure or a success.
C1_Witness ==
    /\ Len(sent) = 2
    /\ Finished(1)
    /\ outcome[1].kind = "raise"
    /\ sent[2].id = 2

\* Every id a request carries: those on the wire, then those built and not
\* yet sent.
BuiltNotSent == {t \in Contexts : pc[t] = "send"}

NoDuplicateIds ==
    /\ \A i, j \in 1..Len(sent) : i # j => sent[i].id # sent[j].id
    /\ \A t \in BuiltNotSent : \A i \in 1..Len(sent) : payload[t].id # sent[i].id
    /\ \A t, u \in BuiltNotSent : t # u => payload[t].id # payload[u].id

\* C2 (as stated): with overlapping calls from several contexts no two
\* requests ever carry the same id, under every interleaving of the steps
\* of _next_id.
C2_IdsNeverRepeat == NoDuplicateIds

\* C2 (amended): _next_id does not serialize itself; no two requests carry
\* the same id as long as no context has entered _next_id while another was
\* between its read and its return.
C2_IdsDistinctWhenSerialized == ~raced => NoDuplicateIds

\* C2 witness: two overlapping calls, both requests sent and both calls still
\* running, whose _next_id executions did not overlap.
C2_Witness ==
    /\ ~raced
    /\ Len(sent) = 2
    /\ \E t, u \in Contexts :
         t # u /\ pc[t] \in {"resolve", "unwrap"} /\ pc[u] \in {"resolve", "unwrap"}

\* C3: a decoded response with an error field ends the call with
\* Exception("MCP Error: <error>") and never yields a value, with or without
\* a result field, and whatever the error is.
C3_ErrorFieldAlwaysRaises ==
    \A t \in MainContext :
        (pc[t] \in {"unwrap", "idle"} /\ response[t].t = "obj"
            /\ "error" \in DOMAIN response[t].fields) =>
          LET e == response[t].fields.error
          IN  /\ pc[t] = "idle"
              /\ result[t] = None
              /\ outcome[t].kind = "raise"
              /\ outcome[t].exc = "Exception"
              /\ e = JNull => outcome[t].msg = "MCP Error: None"
              /\ e = JStr("boom") => outcome[t].msg = "MCP Error: boom"
              /\ e = JObj([code |-> JNum(5), message |-> JStr("boom")]) =>
                   outcome[t].msg = "MCP Error: {'code': 5, 'message': 'boom'}"
              /\ e \in ErrorPayloads

\* C3 witness: a response with a null error and a result; the call raised.
C3_Witness ==
    /\ Finished(1)
    /\ response[1] = JObj([error |-> JNull,
                           result |-> WithContent(JList(<<Item(TextA)>>))])
    /\ outcome[1] = Raise("Exception", "MCP Error: None")

\* C4: a decoded response that is an object without an error field resolves
\* to the value of its result field, and to the empty mapping when it has no
\* result field; resolution does not fail.
C4_NoErrorFieldResolves ==
    \A t \in MainContext :
        (pc[t] \in {"unwrap", "idle"} /\ response[t].t = "obj"
            /\ "error" \notin DOMAIN response[t].fields) =>
          LET resolved == IF "result" \in DOMAIN response[t].fields
                          THEN response[t].fields.result ELSE JObj(EmptyDict)
          IN  IF op[t].fn \in {"initialize", "list_tools", "call_tool"}
              THEN pc[t] = "idle" /\ outcome[t] = Return(resolved)
              ELSE result[t] = resolved

\* C4 witness: a response with neither field; initialize returned {}.
C4_Witness ==
    /\ Finished(1)
    /\ op[1].fn = "initialize"
    /\ response[1] = JObj(EmptyDict)
    /\ outcome[1] = Return(JObj(EmptyDict))

\* The four named operations, which unwrap the tool result.
NamedOps == {"query", "tooling_query", "describe_object", "retrieve_metadata"}

\* The resolved result r has a content field that is a non-empty list.
HasItems(r) ==
    /\ r.t = "obj"
    /\ "content" \in DOMAIN r.fields
    /\ r.fields.content.t = "list"
    /\ Len(r.fields.content.items) > 0

\* ... and its first item is a mapping whose text is a string.
HasFirstText(r) ==
    /\ HasItems(r)
    /\ r.fields.content.items[1].t = "obj"
    /\ "text" \in DOMAIN r.fields.content.items[1].fields
    /\ r.fields.content.items[1].fields.text.t = "str"

FirstText(r) == r.fields.content.items[1].fields.text.s

\* C5: query, tooling_query, describe_object and retrieve_metadata return the
\* decoded text of the first content item, whatever the later items are, when
\* content is a non-empty sequence; with content absent or empty they return
\* the resolved result unchanged; they return nothing else.
C5_UnwrapFirstTextOrUnchanged ==
    \A t \in MainContext :
        (Finished(t) /\ op[t].fn \in NamedOps /\ result[t] # None) =>
          LET r == result[t]
              decodes == HasFirstText(r) /\ FirstText(r) \in JsonDocuments
              absent == r.t = "obj" /\ "content" \notin DOMAIN r.fields
              empty == r.t = "obj" /\ "content" \in DOMAIN r.fields
                         /\ r.fields.content.t = "list"
                         /\ Len(r.fields.content.items) = 0
          IN  /\ decodes => outcome[t] = Return(Decoded(FirstText(r)))
              /\ (absent \/ empty) => outcome[t] = Return(r)
              /\ outcome[t].kind = "return" =>
                   IF decodes THEN outcome[t].value = Decoded(FirstText(r))
                   ELSE ~HasItems(r) /\ outcome[t].value = r
              /\ r = WithContent(JList(<<Item(TextB), Item(TextA)>>)) =>
                   outcome[t] = Return(JObj([b |-> JNum(2)]))
              /\ r = WithContent(JList(<<Item(TextA), Item(TextBad)>>)) =>
                   outcome[t] = Return(JObj([a |-> JNum(1)]))

\* C5 witness: retrieve_metadata got two items and returned the first, decoded.
C5_Witness ==
    /\ Finished(1)
    /\ op[1].fn = "retrieve_metadata"
    /\ result[1] = WithContent(JList(<<Item(TextB), Item(TextA)>>))
    /\ outcome[1] = Return(JObj([b |-> JNum(2)]))

\* C6: when the text of the first content item is not a JSON document, the
\* operation ends with json.JSONDecodeError; it does not return the raw
\* envelope, nor anything else.
C6_DecodeFailurePropagates ==
    \A t \in MainContext :
        (Finished(t) /\ op[t].fn \in NamedOps /\ result[t] # None
            /\ HasFirstText(result[t]) /\ FirstText(result[t]) \notin JsonDocuments) =>
          /\ outcome[t].kind = "raise"
          /\ outcome[t].exc = "JSONDecodeError"

\* C6 witness: query got a first item that is not JSON, followed by one that is.
C6_Witness ==
    /\ Finished(1)
    /\ op[1].fn = "query"
    /\ result[1] = WithContent(JList(<<Item(TextBad), Item(TextA)>>))
    /\ outcome[1] = Raise("JSONDecodeError", "")

\* C7: a send that fails (timeout, connection failure, non-success status)
\* ends the call with the requests exception, which is not the Exception
\* raised for an error field, with nothing resolved or unwrapped; the counter
\* stays at the id of the failed request, and the next call's id is that id
\* plus one.
C7_TransportFailure ==
    \A t \in MainContext :
        /\ (Finished(t) /\ response[t] = None) =>
             /\ outcome[t].kind = "raise"
             /\ outcome[t].exc \in TransportErrors \cup {"JSONDecodeError"}
             /\ result[t] = None
             /\ request_id = payload[t].id
             /\ sent[Len(sent)] = payload[t]
        /\ (Finished(t) /\ outcome[t].kind = "raise"
               /\ outcome[t].exc \in TransportErrors) =>
             response[t] = None
        /\ (pc[t] = "send" /\ outcome[t].kind = "raise"
               /\ outcome[t].exc \in TransportErrors) =>
             payload[t].id = sent[Len(sent)].id + 1

\* C7 witness: the first call timed out and the second call's request is built
\* with id 2.
C7_Witness ==
    /\ pc[1] = "send"
    /\ outcome[1] = Raise("Timeout", "")
    /\ Len(sent) = 1
    /\ payload[1].id = 2

\* C8: each named operation sends one request with method tools/call and
\* params {name, arguments} built from its own arguments, whose id is one more
\* than the id of the previous request of the instance.
C8_NamedOperationRequest ==
    \A t \in MainContext :
        (payload[t] # None /\ op[t].fn \in NamedOps) =>
          LET p == payload[t]
              c == op[t]
              n == Len(sent)
          IN  /\ p.jsonrpc = "2.0"
              /\ p.method = "tools/call"
              /\ c.fn = "query" =>
                   p.params = [name |-> "query", arguments |-> [query |-> c.soql]]
              /\ c.fn = "tooling_query" =>
                   p.params = [name |-> "tooling-query",
                               arguments |-> [query |-> c.query]]
              /\ c.fn = "describe_object" =>
                   p.params = [name |-> "describe-object",
                               arguments |-> [objectName |-> c.object_name,
                                              detailed |-> c.detailed]]
              /\ c.fn = "retrieve_metadata" =>
                   p.params = [name |-> "metadata-retrieve",
                               arguments |-> [type |-> c.metadata_type,
                                              fullNames |-> c.full_names]]
              /\ pc[t] = "send" =>
                   /\ p.id = n + 1
                   /\ n > 0 => p.id = sent[n].id + 1
              /\ pc[t] # "send" =>
                   /\ n > 0
                   /\ sent[n] = p
                   /\ n > 1 => p.id = sent[n - 1].id + 1

\* C8 witness: describe_object("Account", detailed=True) as the second call.
C8_Witness ==
    /\ Finished(1)
    /\ op[1] = [fn |-> "describe_object", object_name |-> "Account",
                detailed |-> TRUE]
    /\ Len(sent) = 2
    /\ sent[2] = [jsonrpc |-> "2.0", id |-> 2, method |-> "tools/call",
                  params |-> [name |-> "describe-object",
                              arguments |-> [objectName |-> "Account",
                                             detailed |-> TRUE]]]

\* C9 (as stated): a call that fails, fails with a transport failure, the
\* Exception of an error field, or a decode failure, for every server reply.
C9_OnlyThreeFailureKinds ==
    \A t \in MainContext :
        (Finished(t) /\ outcome[t].kind = "raise") =>
          outcome[t].exc \in TransportErrors \cup {"Exception", "JSONDecodeError"}

\* C10 (as stated): every public operation returns its value from the Unwrap
\* step, initialize and list_tools like the named operations.
C10_EveryOperationUnwraps ==
    [][\A t \in MainContext :
         (pc[t] # "idle" /\ pc'[t] = "idle" /\ outcome'[t].kind = "return") =>
           pc[t] = "unwrap"]_vars

\* The steps of one call, in order.
PipelineSteps ==
    { <<"idle", "next_id_load">>, <<"next_id_load", "next_id_store">>,
      <<"next_id_store", "next_id_return">>, <<"next_id_return", "send">>,
      <<"send", "resolve">>, <<"send", "idle">>,
      <<"resolve", "unwrap">>, <<"resolve", "idle">>, <<"unwrap", "idle">> }

C10_PipelineStep(t) ==
    /\ pc'[t] # pc[t] => <<pc[t], pc'[t]>> \in PipelineSteps
    /\ Len(sent') = Len(sent) + (IF pc[t] = "send" THEN 1 ELSE 0)
    /\ (pc[t] = "send" /\ pc'[t] = "idle") => outcome'[t].kind = "raise"
    /\ (pc[t] = "send" /\ pc'[t] = "resolve") => response'[t] # None
    /\ pc'[t] = "unwrap" =>
         /\ op[t].fn \in {"query", "tooling_query", "describe_object",
                          "retrieve_metadata"}
         /\ result'[t] # None
    /\ (pc[t] = "resolve" /\ pc'[t] = "idle" /\ outcome'[t].kind = "return") =>
         /\ op[t].fn \in {"initialize", "list_tools", "call_tool"}
         /\ outcome'[t].value =
              IF "result" \in DOMAIN response[t].fields
              THEN response[t].fields.result ELSE JObj(EmptyDict)

\* C10 (amended): every public operation runs Build, Send, Resolve in that
\* order with one send per call and no step after a failed one; query,
\* tooling_query, describe_object and retrieve_metadata then run Unwrap, while
\* initialize, list_tools and call_tool return the resolved result as it is.
C10_LinearPipeline == [][\A t \in MainContext : C10_PipelineStep(t)]_vars

\* C10 witness: initialize returned a tool-result envelope as it came.
C10_Witness ==
    /\ Finished(1)
    /\ op[1].fn = "initialize"
    /\ outcome[1] = Return(WithContent(JList(<<Item(TextA)>>)))

====
